---- MODULE Spec2Model ----
(***************************************************************************)
(* Model of the structura extraction service: bundled blueprint loading,   *)
(* blueprint resolution (bundled set, then the access-controlled remote    *)
(* store), the five-step extract pipeline and the schema validator with    *)
(* its repair pass; the two HTTP endpoints and their mapping of failures   *)
(* to statuses, the file extractor, the lazily initialized remote-store    *)
(* handle under concurrent constructions, the bounded scrape pool, and     *)
(* concurrent invocations of the pipeline.                                 *)
(***************************************************************************)
EXTENDS Integers, Sequences, FiniteSets, TLC

\* ------------------------------------------------------------------ bounds
MaxRequired == 2     \* longest schema "required" list enumerated
MaxListLen  == 1     \* longest JSON array the model backend returns
MaxFiles    == 3     \* most blueprint files in the blueprints directory
MaxRef      == 3     \* objects the record heap can hold
MaxNameParts == 2    \* most dot-separated parts of an uploaded file's name
MaxBytes    == 2     \* most bytes of an uploaded file
MaxThreads  == 3     \* threads constructing a FirebaseBlueprintClient
MaxCalls    == 7     \* scrape calls submitted to the pool
MaxInvocations == 2  \* concurrent invocations of extract

\* ------------------------------------------------------------- python values
NoneVal == "<None>"
\* truthiness of an Optional[str] (None and "" are falsy)
Truthy(x) == x \notin {NoneVal, ""}
\* str.strip() on the strings the model enumerates
Strip(s) == IF s \in {"", " "} THEN "" ELSE s
Texts == {"", " ", "text"}

\* ---------------------------------------------------------------- JSON data
Fields == {"product_name", "price"}
JNull == "null"
StringVals == {"str:"}
Vals == {JNull, "num:1"} \cup StringVals

SeqsUpTo(S, n) == UNION {[1..k -> S] : k \in 0..n}
SubFuncs(S, T) == UNION {[D -> T] : D \in SUBSET S}

EmptyD == [f \in {} |-> JNull]
Dict(d) == [kind |-> "dict", d |-> d, items |-> <<>>]
List(items) == [kind |-> "list", d |-> EmptyD, items |-> items]
Scalar == [kind |-> "scalar", d |-> EmptyD, items |-> <<>>]
Free == [kind |-> "free", d |-> EmptyD, items |-> <<>>]
\* every value json.loads can return: an object, an array, or a scalar
JsonValues ==
    {Dict(d) : d \in SubFuncs(Fields, Vals)}
        \cup {List(s) : s \in SeqsUpTo(Fields, MaxListLen)}
        \cup {Scalar}

\* ------------------------------------------------------------------ schemas
FieldSchemas ==
    {[type |-> t, hasDefault |-> FALSE, default |-> JNull] : t \in {"string", "any"}}
        \cup [type : {"string", "any"}, hasDefault : {TRUE}, default : Vals]
Schemas ==
    [type : {"object", "any"}, hasRequired : {TRUE},
     required : SeqsUpTo(Fields, MaxRequired),
     properties : SubFuncs(Fields, FieldSchemas)]
        \cup [type : {"object", "any"}, hasRequired : {FALSE},
              required : {<<>>}, properties : SubFuncs(Fields, FieldSchemas)]
NoSchema == [type |-> "unset", hasRequired |-> FALSE, required |-> <<>>,
             properties |-> EmptyD]

\* -------------------------------------------------------- schema validator
\* `field in data` for a dict (keys) or a list (elements)
Contains(data, field) ==
    \/ data.kind = "dict" /\ field \in DOMAIN data.d
    \/ data.kind = "list" /\ \E i \in DOMAIN data.items : data.items[i] = field

TypeOK(v, t) == t = "any" \/ (t = "string" /\ v \in StringVals)

\* the schema passes the validator's own check of the schema
\* ("required" items must be unique)
WellFormed(schema) ==
    \A i, j \in DOMAIN schema.required :
        schema.required[i] = schema.required[j] => i = j

\* the keywords of the schema the instance violates
ValidationErrors(data, schema) ==
    (IF schema.type = "object" /\ data.kind # "dict" THEN {"type"} ELSE {})
        \cup (IF /\ data.kind = "dict"
                 /\ \E i \in DOMAIN schema.required :
                        schema.required[i] \notin DOMAIN data.d
              THEN {"required"} ELSE {})
        \cup (IF /\ data.kind = "dict"
                 /\ \E f \in DOMAIN data.d \cap DOMAIN schema.properties :
                        ~TypeOK(data.d[f], schema.properties[f].type)
              THEN {"properties"} ELSE {})

\* SchemaValidator.validate_data: is_valid (a malformed schema is the
\* "unexpected validation error" branch, which also answers False)
validate_data(data, schema) ==
    IF ~WellFormed(schema) THEN FALSE ELSE ValidationErrors(data, schema) = {}

\* mutant: the schema's default is never looked up
DefaultForAlwaysNone(schema, field) == JNull

\* schema.get("properties", {}).get(field, {}) and its "default", else None
DefaultFor(schema, field) ==
    IF field \in DOMAIN schema.properties /\ schema.properties[field].hasDefault
    THEN schema.properties[field].default
    ELSE JNull

\* fixed_data[field] = value on a dict
SetItem(data, field, value) ==
    Dict([f \in DOMAIN data.d \cup {field} |->
            IF f = field THEN value ELSE data.d[f]])

RECURSIVE FixFieldsReturnsEarly(_, _, _)
\* mutant: the loop returns right after the first field it fills
FixFieldsReturnsEarly(fixed, schema, i) ==
    IF i > Len(schema.required) THEN [raised |-> FALSE, value |-> fixed]
    ELSE LET field == schema.required[i] IN
         IF Contains(fixed, field) THEN FixFieldsReturnsEarly(fixed, schema, i + 1)
         ELSE IF fixed.kind # "dict" THEN [raised |-> TRUE, value |-> fixed]
         ELSE [raised |-> FALSE,
               value |-> SetItem(fixed, field, DefaultFor(schema, field))]

RECURSIVE FixFields(_, _, _)
\* the loop over required_fields from position i on; assigning a string key
\* to a list raises TypeError
FixFields(fixed, schema, i) ==
    IF i > Len(schema.required) THEN [raised |-> FALSE, value |-> fixed]
    ELSE LET field == schema.required[i] IN
         IF Contains(fixed, field) THEN FixFields(fixed, schema, i + 1)
         ELSE IF fixed.kind # "dict" THEN [raised |-> TRUE, value |-> fixed]
         ELSE FixFields(SetItem(fixed, field, DefaultFor(schema, field)),
                        schema, i + 1)

EmptyHeap == [r \in 1..MaxRef |-> Free]
\* the reference a newly created object gets
Alloc(h) == CHOOSE r \in 1..MaxRef :
                h[r] = Free /\ \A q \in 1..(r - 1) : h[q] # Free

\* mutant: fixed_data = data, without the copy
FixInPlace(h, ref, schema) ==
    IF ~schema.hasRequired \/ schema.required = <<>>
    THEN [raised |-> FALSE, ref |-> ref, heap |-> h]
    ELSE IF h[ref].kind = "scalar"
    THEN [raised |-> TRUE, ref |-> ref, heap |-> h]
    ELSE LET r == FixFields(h[ref], schema, 1)
         IN  IF r.raised THEN [raised |-> TRUE, ref |-> ref, heap |-> h]
             ELSE [raised |-> FALSE, ref |-> ref,
                   heap |-> [h EXCEPT ![ref] = r.value]]

\* mutant: the record is copied before 'required' is looked at
FixAlwaysCopies(h, ref, schema) ==
    IF h[ref].kind = "scalar"
    THEN [raised |-> TRUE, ref |-> ref, heap |-> h]
    ELSE LET new == Alloc(h)
             r == FixFields(h[ref], schema, 1)
         IN  IF r.raised THEN [raised |-> TRUE, ref |-> ref, heap |-> h]
             ELSE [raised |-> FALSE, ref |-> new,
                   heap |-> [h EXCEPT ![new] = r.value]]

\* SchemaValidator.validate_and_fix_required_fields on the record referenced
\* by ref: [raised, ref, heap].  No or empty "required" returns the argument
\* itself; otherwise data.copy() makes a new object (a scalar has no copy():
\* AttributeError) and the loop fills it.
validate_and_fix_required_fields(h, ref, schema) ==
    IF ~schema.hasRequired \/ schema.required = <<>>
    THEN [raised |-> FALSE, ref |-> ref, heap |-> h]
    ELSE IF h[ref].kind = "scalar"
    THEN [raised |-> TRUE, ref |-> ref, heap |-> h]
    ELSE LET new == Alloc(h)
             r == FixFields(h[ref], schema, 1)
         IN  IF r.raised THEN [raised |-> TRUE, ref |-> ref, heap |-> h]
             ELSE [raised |-> FALSE, ref |-> new,
                   heap |-> [h EXCEPT ![new] = r.value]]

\* ------------------------------------------------- bundled (open) blueprints
Stems == {"e-commerce", "ecommerce", "medical"}
Domains == Stems \cup {"legal"}

EcomProps ==
    [f \in Fields |->
        IF f = "product_name"
        THEN [type |-> "string", hasDefault |-> TRUE, default |-> "str:"]
        ELSE [type |-> "any", hasDefault |-> FALSE, default |-> JNull]]
\* the schemas the blueprint files and remote documents of the pipeline hold
PipelineSchemas ==
    {s \in Schemas : /\ s.properties = EcomProps
                     /\ s.required \in {<<>>, <<"product_name">>}
                     /\ s.hasRequired = (s.required # <<>>)}

\* a file of the blueprints directory: its stem, whether json.load parses
\* it, and the schema it holds
Files == [stem : Stems, parses : BOOLEAN, schema : PipelineSchemas]
\* the directory in glob order, at most n files drawn from fs: no two files
\* share a name
DirListings(fs, n) ==
    {d \in SeqsUpTo(fs, n) :
        \A i, j \in DOMAIN d : d[i].stem = d[j].stem => i = j}
\* the files the loader is run on: either spelling of the alias pair and an
\* unrelated name, parseable or not
LoaderFiles == {f \in Files : f.schema.type = "object"}
\* the directories the pipeline starts from: empty, or one parseable file
PipelineDirs ==
    DirListings({f \in Files : f.parses /\ f.stem # "ecommerce"}, 1)

EmptyBlueprints == [n \in {} |-> 0]
\* blueprints[key] = schema, where the schema object loaded from file n of
\* the listing is identified by n
Put(bp, key, n) ==
    [k \in DOMAIN bp \cup {key} |-> IF k = key THEN n ELSE bp[k]]

\* mutant: only the hyphenated spelling gets its alias
LoadFileOneWayAlias(bp, d, n) ==
    LET stem == d[n].stem IN
    IF ~d[n].parses THEN bp
    ELSE LET a == Put(bp, stem, n) IN
         IF stem = "e-commerce" THEN Put(a, "ecommerce", n) ELSE a

\* one iteration of the loop of _load_open_blueprints, on file n
LoadFile(bp, d, n) ==
    LET stem == d[n].stem IN
    IF ~d[n].parses THEN bp
    ELSE LET a == Put(bp, stem, n) IN
         IF stem = "e-commerce" THEN Put(a, "ecommerce", n)
         ELSE IF stem = "ecommerce" THEN Put(a, "e-commerce", n)
         ELSE a

RECURSIVE LoadFrom(_, _, _)
LoadFrom(bp, d, n) ==
    IF n > Len(d) THEN bp ELSE LoadFrom(LoadFile(bp, d, n), d, n + 1)

_load_open_blueprints(d) == LoadFrom(EmptyBlueprints, d, 1)

is_open_blueprint(open, dom) == dom \in DOMAIN open
\* the schema held by the object OPEN_BLUEPRINTS[domain]
get_open_blueprint(open, d, dom) == d[open[dom]].schema

\* --------------------------------------------------- protected blueprints
\* what reading the blueprint document of the remote store answers
DocUnread == [state |-> "unread", schemaKind |-> "missing", schema |-> NoSchema]
DocReads ==
    {[state |-> st, schemaKind |-> "missing", schema |-> NoSchema] :
        st \in {"raises", "absent"}}
        \cup {[state |-> "present", schemaKind |-> k, schema |-> NoSchema] :
                k \in {"missing", "not_string", "bad_json"}}
        \cup {[state |-> "present", schemaKind |-> "json", schema |-> s] :
                s \in PipelineSchemas}

AllowNames == {"*", "medical"}
\* what reading the api_keys document keyed by the credential answers
KeyUnread == [state |-> "unread", active |-> "absent", allowedKind |-> "absent",
              allowed |-> {}]
KeyReads ==
    {[state |-> st, active |-> "absent", allowedKind |-> "absent", allowed |-> {}] :
        st \in {"raises", "absent"}}
        \cup [state : {"present"}, active : {"true", "false", "absent"},
              allowedKind : {"absent", "null"}, allowed : {{}}]
        \cup [state : {"present"}, active : {"true", "false", "absent"},
              allowedKind : {"list"}, allowed : SUBSET AllowNames]

\* mutant: an exception while the credential is checked grants access
ValidateKeyFailsOpen(kd, dom) ==
    IF kd.state = "raises" THEN TRUE
    ELSE IF kd.state # "present" THEN FALSE
    ELSE IF kd.allowedKind = "null" THEN TRUE
    ELSE /\ ("*" \in kd.allowed \/ dom \in kd.allowed)
         /\ kd.active = "true"

\* mutant: the 'active' flag is not checked
ValidateKeyIgnoresActive(kd, dom) ==
    IF kd.state # "present" THEN FALSE
    ELSE IF kd.allowedKind = "null" THEN FALSE
    ELSE "*" \in kd.allowed \/ dom \in kd.allowed

\* FirebaseBlueprintClient._validate_api_key: every exception answers False
\* (`'*' in None` is a TypeError)
_validate_api_key(kd, dom) ==
    IF kd.state # "present" THEN FALSE
    ELSE IF kd.allowedKind = "null" THEN FALSE
    ELSE /\ ("*" \in kd.allowed \/ dom \in kd.allowed)
         /\ kd.active = "true"

Resolved(s, premium, docRead, keyRead) ==
    [error |-> "none", blueprint |-> s, is_premium |-> premium,
     docRead |-> docRead, keyRead |-> keyRead]
Failure(e, docRead, keyRead) ==
    [error |-> e, blueprint |-> NoSchema, is_premium |-> FALSE,
     docRead |-> docRead, keyRead |-> keyRead]

\* mutant: a schema stored as an object is returned without parsing
GetBlueprintSyncAcceptsObject(dom, dc, kd) ==
    IF dc.state = "raises" THEN Failure("StoreError", TRUE, FALSE)
    ELSE IF dc.state = "absent" THEN Failure("NotFound", TRUE, FALSE)
    ELSE IF ~_validate_api_key(kd, dom) THEN Failure("AccessDenied", TRUE, TRUE)
    ELSE IF dc.schemaKind \in {"json", "not_string"}
    THEN Resolved(dc.schema, TRUE, TRUE, TRUE)
    ELSE IF dc.schemaKind = "bad_json" THEN Failure("SchemaInvalidJson", TRUE, TRUE)
    ELSE Failure("SchemaMissing", TRUE, TRUE)

\* mutant: the credential is checked before the document is looked for
GetBlueprintSyncAccessFirst(dom, dc, kd) ==
    IF dc.state = "raises" THEN Failure("StoreError", TRUE, FALSE)
    ELSE IF ~_validate_api_key(kd, dom) THEN Failure("AccessDenied", TRUE, TRUE)
    ELSE IF dc.state = "absent" THEN Failure("NotFound", TRUE, TRUE)
    ELSE IF dc.schemaKind = "json" THEN Resolved(dc.schema, TRUE, TRUE, TRUE)
    ELSE IF dc.schemaKind = "bad_json" THEN Failure("SchemaInvalidJson", TRUE, TRUE)
    ELSE IF dc.schemaKind = "not_string" THEN Failure("SchemaNotString", TRUE, TRUE)
    ELSE Failure("SchemaMissing", TRUE, TRUE)

\* FirebaseBlueprintClient._get_blueprint_sync
_get_blueprint_sync(dom, dc, kd) ==
    IF dc.state = "raises" THEN Failure("StoreError", TRUE, FALSE)
    ELSE IF dc.state = "absent" THEN Failure("NotFound", TRUE, FALSE)
    ELSE IF ~_validate_api_key(kd, dom) THEN Failure("AccessDenied", TRUE, TRUE)
    ELSE IF dc.schemaKind = "json" THEN Resolved(dc.schema, TRUE, TRUE, TRUE)
    ELSE IF dc.schemaKind = "bad_json" THEN Failure("SchemaInvalidJson", TRUE, TRUE)
    ELSE IF dc.schemaKind = "not_string" THEN Failure("SchemaNotString", TRUE, TRUE)
    ELSE Failure("SchemaMissing", TRUE, TRUE)

\* FirebaseBlueprintClient.get_blueprint: a ValueError passes through, any
\* other exception is wrapped in a plain Exception
get_blueprint(dom, key, dc, kd) ==
    IF ~Truthy(key) THEN Failure("AuthRequired", FALSE, FALSE)
    ELSE LET r == _get_blueprint_sync(dom, dc, kd) IN
         IF r.error = "StoreError" THEN Failure("FetchFailed", TRUE, FALSE)
         ELSE r

\* mutant: the remote-store client is required before the bundled set is
\* looked at
LoadBlueprintClientFirst(dom, key, open, d, client, dc, kd) ==
    IF ~client THEN Failure("Configuration", FALSE, FALSE)
    ELSE IF is_open_blueprint(open, dom)
    THEN Resolved(get_open_blueprint(open, d, dom), FALSE, FALSE, FALSE)
    ELSE get_blueprint(dom, key, dc, kd)

\* mutant: the credential is required before the client is
LoadBlueprintKeyFirst(dom, key, open, d, client, dc, kd) ==
    IF is_open_blueprint(open, dom)
    THEN Resolved(get_open_blueprint(open, d, dom), FALSE, FALSE, FALSE)
    ELSE IF ~Truthy(key) THEN Failure("AuthRequired", FALSE, FALSE)
    ELSE IF ~client THEN Failure("Configuration", FALSE, FALSE)
    ELSE get_blueprint(dom, key, dc, kd)

\* ExtractionService.load_blueprint
load_blueprint(dom, key, open, d, client, dc, kd) ==
    IF is_open_blueprint(open, dom)
    THEN Resolved(get_open_blueprint(open, d, dom), FALSE, FALSE, FALSE)
    ELSE IF ~client THEN Failure("Configuration", FALSE, FALSE)
    ELSE get_blueprint(dom, key, dc, kd)

\* the exception class of each failure
ErrorClass(e) ==
    IF e \in {"Configuration", "AuthRequired", "NotFound", "AccessDenied",
              "SchemaInvalidJson", "SchemaNotString", "SchemaMissing",
              "InvalidInput", "NoContent", "LlmConfig"}
    THEN "ValueError"
    ELSE IF e = "RepairTypeError" THEN "TypeError"
    ELSE IF e = "RepairAttributeError" THEN "AttributeError"
    ELSE "Exception"

\* the values os.getenv gives the two model names: the defaults of config.py,
\* or what the environment sets, an empty string included
DefaultModel == "gpt-4o-mini"
DefaultModelPremium == "deepseek-v3"
ModelNames == {"", DefaultModel, DefaultModelPremium}

\* -------------------------------------------------------------------- state
VARIABLES
    \* configuration (src/config.py), read once at import
    LLM_MODEL,         \* the name of the standard model
    LLM_MODEL_PREMIUM, \* the name of the premium model
    dir,               \* the blueprints directory, in glob order
    idx,               \* the file the loader's loop is at
    OPEN_BLUEPRINTS,   \* name -> schema object (its file number)
    firebase_client,   \* ExtractionService.firebase_client is not None
    url, domain, api_key, markdown_content,   \* the arguments of extract
    pc,                \* where the invocation is
    blueprint, is_premium,
    doc, key_doc,      \* what the remote store answered (unread if not asked)
    markdown, model,
    self_model,        \* the model name the client sends to the backend
    heap,              \* reference -> record object
    extracted_data,    \* reference held by the local of that name (0: unset)
    original,          \* the record as first obtained (reference 1)
    is_valid,          \* results of validate_data, in call order
    fix,               \* results of the repair pass, in call order
    returned,          \* the reference extract returns (0: none)
    error,             \* the failure raised ("none": none)
    calls,             \* calls made to each backend and component
    fetched,           \* what the scrape backend answered ("<unfetched>")
    response,          \* what the HTTP handler answered
    \* the HTTP endpoints
    endpoint, x_api_key, body_api_key,
    hpc,               \* where the handler is
    passed,            \* the arguments the handler passed to extract
    outcome,           \* what extract (or the file extractor) did
    \* the file extractor
    upload,            \* the uploaded file: name and bytes
    fpc,               \* where extract_markdown is
    extracted,         \* what extract_markdown returned or raised
    \* constructions of FirebaseBlueprintClient
    thr,               \* constructing thread -> position, arguments, result
    _firebase_app,     \* the module global
    sdk_app,           \* the SDK has a default app registered
    init_ok,           \* successful executions of initialize_app
    app_writes,        \* assignments to the module global
    \* the scrape pool
    call,              \* scrape call -> new, queued, running, done
    work_queue,        \* the executor's queue of submitted calls
    \* concurrent invocations of extract
    inv,               \* invocation -> its arguments, locals and answers
    cell               \* storage cell -> the blueprint held there

vars == <<LLM_MODEL, LLM_MODEL_PREMIUM, dir, idx, OPEN_BLUEPRINTS, firebase_client, url, domain, api_key,
          markdown_content, pc, blueprint, is_premium, doc, key_doc, markdown,
          model, self_model, heap, extracted_data, original, is_valid, fix,
          returned, error, calls, fetched, response, endpoint, x_api_key, body_api_key,
          hpc, passed, outcome, upload, fpc, extracted, thr, _firebase_app,
          sdk_app, init_ok, app_writes, call, work_queue, inv, cell>>

apiVars == <<endpoint, x_api_key, body_api_key, hpc, passed, outcome>>
fileVars == <<upload, fpc, extracted>>
initVars == <<thr, _firebase_app, sdk_app, init_ok, app_writes>>
poolVars == <<call, work_queue>>
concVars == <<inv, cell>>
\* the state outside the invocation of extract
otherVars == <<apiVars, fileVars, initVars, poolVars, concVars>>
auxVars == <<response, otherVars>>

modelVars == <<model, self_model>>
envVars == <<LLM_MODEL, LLM_MODEL_PREMIUM, dir, idx, OPEN_BLUEPRINTS,
            firebase_client>>
argVars == <<url, domain, api_key, markdown_content>>

Unfetched == "<unfetched>"
NoCalls == [doc |-> 0, key |-> 0, scrape |-> 0, llm |-> 0, validate |-> 0,
            repair |-> 0]
Bump(c, what) == [c EXCEPT ![what] = @ + 1]

\* the model names when the environment sets neither
DefaultConfig ==
    LLM_MODEL = DefaultModel /\ LLM_MODEL_PREMIUM = DefaultModelPremium

\* the invocation's locals before its first statement
Fresh ==
    /\ blueprint = NoSchema /\ is_premium = FALSE
    /\ doc = DocUnread /\ key_doc = KeyUnread
    /\ markdown = NoneVal /\ model = NoneVal /\ self_model = NoneVal
    /\ heap = EmptyHeap /\ extracted_data = 0 /\ original = Free
    /\ is_valid = <<>> /\ fix = <<>> /\ returned = 0
    /\ error = "none" /\ calls = NoCalls
    /\ fetched = Unfetched

\* every variable of the invocation of extract
pipeVars == <<fetched, envVars, argVars, pc, blueprint, is_premium, doc, key_doc,
              markdown, modelVars, heap, extracted_data, original, is_valid,
              fix, returned, error, calls>>

\* no request is being handled
NoResponse == [status |-> 0, success |-> FALSE, data |-> Free, detail |-> "none"]
NotPassed == [url |-> NoneVal, api_key |-> NoneVal, markdown_content |-> NoneVal,
              called |-> FALSE]
NoOutcome == [cls |-> "pending", value |-> Free]
ApiIdle ==
    /\ endpoint = "none" /\ x_api_key = NoneVal /\ body_api_key = NoneVal
    /\ hpc = "idle" /\ passed = NotPassed /\ outcome = NoOutcome
NotExtracted == [raised |-> "pending", reports |-> "none", text |-> <<>>]
FileIdle ==
    /\ upload = [filename |-> <<>>, content |-> <<>>]
    /\ fpc = "idle" /\ extracted = NotExtracted
InitIdle ==
    /\ thr = <<>> /\ _firebase_app = NoneVal /\ sdk_app = FALSE
    /\ init_ok = 0 /\ app_writes = 0
PoolIdle == call = <<>> /\ work_queue = <<>>
ConcIdle == inv = <<>> /\ cell = <<>>
AuxIdle ==
    /\ response = NoResponse
    /\ ApiIdle /\ FileIdle /\ InitIdle /\ PoolIdle /\ ConcIdle

\* OPEN_BLUEPRINTS is loaded at import, the service is constructed with or
\* without a remote-store client, and extract is called with any arguments
Init ==
    /\ DefaultConfig
    /\ dir \in PipelineDirs
    /\ idx = Len(dir) + 1
    /\ OPEN_BLUEPRINTS = _load_open_blueprints(dir)
    /\ firebase_client \in BOOLEAN
    /\ url \in {NoneVal, "u"}
    /\ domain \in Domains
    /\ api_key \in {NoneVal, "", "key"}
    /\ markdown_content \in {NoneVal} \cup Texts
    /\ pc = "step1"
    /\ Fresh
    /\ AuxIdle

Fail(e) == pc' = "failed" /\ error' = e

\* Step 1: blueprint, is_premium = await self.load_blueprint(...)
ResolveBlueprint ==
    /\ pc = "step1"
    /\ \E dc \in DocReads, kd \in KeyReads :
        LET r == load_blueprint(domain, api_key, OPEN_BLUEPRINTS, dir,
                                firebase_client, dc, kd)
        IN  /\ blueprint' = r.blueprint
            /\ is_premium' = r.is_premium
            /\ doc' = IF r.docRead THEN dc ELSE DocUnread
            /\ key_doc' = IF r.keyRead THEN kd ELSE KeyUnread
            /\ calls' = [calls EXCEPT
                            !.doc = @ + (IF r.docRead THEN 1 ELSE 0),
                            !.key = @ + (IF r.keyRead THEN 1 ELSE 0)]
            /\ pc' = IF r.error = "none" THEN "step2" ELSE "failed"
            /\ error' = r.error
    /\ UNCHANGED <<auxVars, fetched, envVars, argVars, markdown, modelVars, heap, extracted_data,
                   original, is_valid, fix, returned>>

\* mutant: the caller's content is not checked for blankness
UseProvidedUnchecked ==
    /\ pc = "step2"
    /\ Truthy(markdown_content)
    /\ markdown' = markdown_content
    /\ pc' = "step3" /\ error' = error
    /\ UNCHANGED <<auxVars, fetched, envVars, argVars, blueprint, is_premium,
                   doc, key_doc, modelVars, heap, extracted_data, original,
                   is_valid, fix, returned, calls>>

\* mutant: the url is preferred when both sources are given
UseProvidedUnlessUrl ==
    /\ pc = "step2"
    /\ Truthy(markdown_content)
    /\ IF Truthy(url)
       THEN /\ calls' = Bump(calls, "scrape")
            /\ pc' = "scraping"
            /\ UNCHANGED <<markdown, error>>
       ELSE /\ markdown' = markdown_content
            /\ calls' = calls
            /\ IF Strip(markdown_content) = ""
               THEN Fail("NoContent")
               ELSE pc' = "step3" /\ error' = error
    /\ UNCHANGED <<auxVars, fetched, envVars, argVars, blueprint, is_premium,
                   doc, key_doc, modelVars, heap, extracted_data, original,
                   is_valid, fix, returned>>

\* Step 2, first branch: the caller's content is used, then checked
UseProvided ==
    /\ pc = "step2"
    /\ Truthy(markdown_content)
    /\ markdown' = markdown_content
    /\ IF Strip(markdown_content) = ""
       THEN Fail("NoContent")
       ELSE pc' = "step3" /\ error' = error
    /\ UNCHANGED <<auxVars, fetched, envVars, argVars, blueprint, is_premium, doc, key_doc,
                   modelVars, heap, extracted_data, original, is_valid, fix,
                   returned, calls>>

\* Step 2, second branch: the scrape backend is called
ScrapeDispatch ==
    /\ pc = "step2"
    /\ ~Truthy(markdown_content)
    /\ Truthy(url)
    /\ calls' = Bump(calls, "scrape")
    /\ pc' = "scraping"
    /\ UNCHANGED <<auxVars, fetched, envVars, argVars, blueprint, is_premium, doc, key_doc,
                   markdown, modelVars, heap, extracted_data, original, is_valid,
                   fix, returned, error>>

\* mutant: a failed or empty scrape is tried again
ScrapeReturnRetries ==
    /\ pc = "scraping"
    /\ \E res \in {"<failure>", NoneVal} \cup Texts :
        /\ fetched' = res
        /\ IF res = "<failure>" \/ ~Truthy(res) \/ Strip(res) = ""
           THEN pc' = "step2" /\ error' = error /\ markdown' = markdown
           ELSE markdown' = res /\ pc' = "step3" /\ error' = error
    /\ UNCHANGED <<auxVars, envVars, argVars, blueprint, is_premium, doc, key_doc,
                   modelVars, heap, extracted_data, original, is_valid, fix,
                   returned, calls>>

\* FirecrawlExtractor.extract_markdown after the backend answered: a backend
\* failure and an empty text both end as a plain Exception
ScrapeReturn ==
    /\ pc = "scraping"
    /\ \E res \in {"<failure>", NoneVal} \cup Texts :
        /\ fetched' = res
        /\ IF res = "<failure>" \/ ~Truthy(res) \/ Strip(res) = ""
           THEN Fail("ScrapeFailed") /\ markdown' = markdown
           ELSE markdown' = res /\ pc' = "step3" /\ error' = error
    /\ UNCHANGED <<auxVars, envVars, argVars, blueprint, is_premium, doc, key_doc,
                   modelVars, heap, extracted_data, original, is_valid, fix,
                   returned, calls>>

\* mutant: without the final else, the url (None) goes to the scrape backend
NoSourceScrapes ==
    /\ pc = "step2"
    /\ ~Truthy(markdown_content)
    /\ ~Truthy(url)
    /\ calls' = Bump(calls, "scrape")
    /\ pc' = "scraping"
    /\ UNCHANGED <<auxVars, fetched, envVars, argVars, blueprint, is_premium, doc, key_doc,
                   markdown, modelVars, heap, extracted_data, original, is_valid,
                   fix, returned, error>>

\* Step 2, last branch: neither content nor url
NoSource ==
    /\ pc = "step2"
    /\ ~Truthy(markdown_content)
    /\ ~Truthy(url)
    /\ Fail("InvalidInput")
    /\ UNCHANGED <<auxVars, fetched, envVars, argVars, blueprint, is_premium, doc, key_doc,
                   markdown, modelVars, heap, extracted_data, original, is_valid,
                   fix, returned, calls>>

\* mutant: every blueprint is sent to the premium model
SelectModelAlwaysPremium(premium) == LLM_MODEL_PREMIUM

\* model = LLM_MODEL_PREMIUM if is_premium else LLM_MODEL
SelectModel(premium) == IF premium THEN LLM_MODEL_PREMIUM ELSE LLM_MODEL

\* OpenAIClient.__init__: self.model = model or LLM_MODEL, the name sent to
\* the backend with the request
ClientModel(m) == IF Truthy(m) THEN m ELSE LLM_MODEL

\* Steps 3 and 4 up to the construction of the client: OpenAIClient(model=...)
\* raises ValueError when neither an API key nor a base URL is configured
LlmClientRejected ==
    /\ pc = "step3"
    /\ model' = SelectModel(is_premium)
    /\ self_model' = ClientModel(model')
    /\ Fail("LlmConfig")
    /\ UNCHANGED <<auxVars, fetched, envVars, argVars, blueprint, is_premium, doc, key_doc,
                   markdown, heap, extracted_data, original, is_valid, fix,
                   returned, calls>>

\* Steps 3 and 4: the prompt is built, the model chosen, the backend called
LlmDispatch ==
    /\ pc = "step3"
    /\ model' = SelectModel(is_premium)
    /\ self_model' = ClientModel(model')
    /\ calls' = Bump(calls, "llm")
    /\ pc' = "llm_call"
    /\ UNCHANGED <<auxVars, fetched, envVars, argVars, blueprint, is_premium, doc, key_doc,
                   markdown, heap, extracted_data, original, is_valid, fix,
                   returned, error>>

\* what the model backend answers: a failure, text json.loads rejects, or
\* text json.loads parses to a value
LlmAnswers ==
    [kind : {"backend_error", "bad_json"}, value : {Free}]
        \cup [kind : {"json"}, value : JsonValues]

\* mutant: an answer that does not parse is taken as an empty object
ExtractStructuredDataLenient(ans) ==
    IF ans.kind = "json" THEN [error |-> "none", value |-> ans.value]
    ELSE IF ans.kind = "bad_json" THEN [error |-> "none", value |-> Dict(EmptyD)]
    ELSE [error |-> "LlmFailed", value |-> Free]

\* OpenAIClient.extract_structured_data after the backend answered: every
\* failure, the JSONDecodeError included, ends as a plain Exception
extract_structured_data(ans) ==
    IF ans.kind = "json" THEN [error |-> "none", value |-> ans.value]
    ELSE [error |-> "LlmFailed", value |-> Free]

LlmReturn ==
    /\ pc = "llm_call"
    /\ \E ans \in LlmAnswers :
        LET r == extract_structured_data(ans)
            ref == Alloc(heap)
        IN  IF r.error # "none"
            THEN /\ Fail(r.error)
                 /\ UNCHANGED <<heap, extracted_data, original>>
            ELSE /\ heap' = [heap EXCEPT ![ref] = r.value]
                 /\ extracted_data' = ref
                 /\ original' = r.value
                 /\ pc' = "validate1"
                 /\ error' = error
    /\ UNCHANGED <<auxVars, fetched, envVars, argVars, blueprint, is_premium, doc, key_doc,
                   markdown, modelVars, is_valid, fix, returned, calls>>

\* mutant: the repair pass runs whatever the first validation says
Validate1AlwaysRepairs ==
    /\ pc = "validate1"
    /\ is_valid' = Append(is_valid, validate_data(heap[extracted_data], blueprint))
    /\ pc' = "repair"
    /\ calls' = Bump(calls, "validate")
    /\ UNCHANGED <<auxVars, fetched, envVars, argVars, blueprint, is_premium, doc, key_doc,
                   markdown, modelVars, heap, extracted_data, original, fix,
                   returned, error>>

\* Step 5: the first validation
Validate1 ==
    /\ pc = "validate1"
    /\ LET ok == validate_data(heap[extracted_data], blueprint)
       IN  /\ is_valid' = Append(is_valid, ok)
           /\ pc' = IF ok THEN "return" ELSE "repair"
    /\ calls' = Bump(calls, "validate")
    /\ UNCHANGED <<auxVars, fetched, envVars, argVars, blueprint, is_premium, doc, key_doc,
                   markdown, modelVars, heap, extracted_data, original, fix,
                   returned, error>>

\* Step 5: extracted_data = validate_and_fix_required_fields(extracted_data,
\* blueprint); an exception of the repair pass leaves extract
Repair ==
    /\ pc = "repair"
    /\ LET r == validate_and_fix_required_fields(heap, extracted_data, blueprint)
       IN  /\ fix' = Append(fix, [raised |-> r.raised, ref |-> r.ref])
           /\ heap' = r.heap
           /\ extracted_data' = r.ref
           /\ IF r.raised
              THEN Fail(IF heap[extracted_data].kind = "scalar"
                        THEN "RepairAttributeError" ELSE "RepairTypeError")
              ELSE pc' = "validate2" /\ error' = error
    /\ calls' = Bump(calls, "repair")
    /\ UNCHANGED <<auxVars, fetched, envVars, argVars, blueprint, is_premium, doc, key_doc,
                   markdown, modelVars, original, is_valid, returned>>

\* Step 5: the second validation, whose failure is only logged
Validate2 ==
    /\ pc = "validate2"
    /\ is_valid' = Append(is_valid, validate_data(heap[extracted_data], blueprint))
    /\ calls' = Bump(calls, "validate")
    /\ pc' = "return"
    /\ UNCHANGED <<auxVars, fetched, envVars, argVars, blueprint, is_premium, doc, key_doc,
                   markdown, modelVars, heap, extracted_data, original, fix,
                   returned, error>>

\* return extracted_data
Return ==
    /\ pc = "return"
    /\ returned' = extracted_data
    /\ pc' = "done"
    /\ UNCHANGED <<auxVars, fetched, envVars, argVars, blueprint, is_premium, doc, key_doc,
                   markdown, modelVars, heap, extracted_data, original, is_valid,
                   fix, error, calls>>

\* --------------------------------------------------------- the HTTP layer
\* the exception classes `except ValueError` catches (pydantic's
\* ValidationError derives from ValueError; FileNotFoundError, TypeError and
\* AttributeError do not)
IsValueError(cls) == cls \in {"ValueError", "ValidationError"}

\* mutant: `except ValueError` answers 404
HttpErrorValueErrorAs404(cls) ==
    IF cls = "FileNotFoundError" \/ IsValueError(cls)
    THEN [status |-> 404, success |-> FALSE, data |-> Free, detail |-> "message"]
    ELSE [status |-> 500, success |-> FALSE, data |-> Free,
          detail |-> "Internal server error: message"]

\* the except chain of both endpoints: the detail is str(e), prefixed in
\* the last branch
HttpError(cls) ==
    IF cls = "FileNotFoundError"
    THEN [status |-> 404, success |-> FALSE, data |-> Free, detail |-> "message"]
    ELSE IF IsValueError(cls)
    THEN [status |-> 400, success |-> FALSE, data |-> Free, detail |-> "message"]
    ELSE [status |-> 500, success |-> FALSE, data |-> Free,
          detail |-> "Internal server error: message"]

HttpOk(data) == [status |-> 200, success |-> TRUE, data |-> data, detail |-> "none"]

\* ExtractResponse(success=True, data=extracted_data), built inside the try:
\* `data: dict` takes an object; any other value is a ValidationError, except
\* that a build with pydantic 1 turns the empty array into {}
ExtractResponse(data) ==
    IF data.kind = "dict" THEN {HttpOk(data)}
    ELSE IF data = List(<<>>)
    THEN {HttpOk(Dict(EmptyD)), HttpError("ValidationError")}
    ELSE {HttpError("ValidationError")}

\* the handler after extract returned a record (cls "none") or raised
Handle(cls, value) ==
    IF cls = "none" THEN ExtractResponse(value) ELSE {HttpError(cls)}

\* mutant: the endpoint answers while the model call is still pending
RespondWithoutWaiting ==
    /\ pc \in {"done", "failed", "llm_call"}
    /\ response = NoResponse
    /\ response' \in IF pc = "done" THEN Handle("none", heap[returned])
                                    ELSE Handle(ErrorClass(error), Free)
    /\ UNCHANGED <<otherVars, fetched, envVars, argVars, pc, blueprint,
                   is_premium, doc, key_doc, markdown, modelVars, heap,
                   extracted_data, original, is_valid, fix, returned, error,
                   calls>>

\* the endpoint's try block after `await extraction_service.extract(...)`
Respond ==
    /\ pc \in {"done", "failed"}
    /\ response = NoResponse
    /\ response' \in IF pc = "done" THEN Handle("none", heap[returned])
                                    ELSE Handle(ErrorClass(error), Free)
    /\ UNCHANGED <<otherVars, fetched, envVars, argVars, pc, blueprint,
                   is_premium, doc, key_doc, markdown, modelVars, heap,
                   extracted_data, original, is_valid, fix, returned, error,
                   calls>>

Next ==
    \/ ResolveBlueprint
    \/ UseProvided
    \/ ScrapeDispatch
    \/ ScrapeReturn
    \/ NoSource
    \/ LlmClientRejected
    \/ LlmDispatch
    \/ LlmReturn
    \/ Validate1
    \/ Repair
    \/ Validate2
    \/ Return
    \/ Respond

Spec == Init /\ [][Next]_vars

\* ------------------------------------------------ step 5 on every schema
\* extract after steps 1-4 succeeded: a protected blueprint holding any
\* schema was resolved, the page was scraped and the model answered with
\* any parsed value
InitStep5 ==
    /\ DefaultConfig
    /\ dir = <<>> /\ idx = 1 /\ OPEN_BLUEPRINTS = EmptyBlueprints
    /\ firebase_client = TRUE
    /\ url = "u" /\ domain = "medical" /\ api_key = "key"
    /\ markdown_content = NoneVal
    /\ pc = "validate1"
    /\ blueprint \in Schemas
    /\ is_premium = TRUE
    /\ doc = [state |-> "present", schemaKind |-> "json", schema |-> blueprint]
    /\ key_doc = [state |-> "present", active |-> "true",
                  allowedKind |-> "list", allowed |-> {"medical"}]
    /\ markdown = "text" /\ model = LLM_MODEL_PREMIUM
    /\ self_model = LLM_MODEL_PREMIUM
    /\ original \in JsonValues
    /\ heap = [EmptyHeap EXCEPT ![1] = original]
    /\ extracted_data = 1
    /\ is_valid = <<>> /\ fix = <<>> /\ returned = 0 /\ error = "none"
    /\ calls = [NoCalls EXCEPT !.doc = 1, !.key = 1, !.scrape = 1, !.llm = 1]
    /\ fetched = "text"
    /\ AuxIdle

NextStep5 == Validate1 \/ Repair \/ Validate2 \/ Return

SpecStep5 == InitStep5 /\ [][NextStep5]_vars

\* ------------------------------------- the repair pass as a pure function
InitRepair ==
    /\ DefaultConfig
    /\ dir = <<>> /\ idx = 1 /\ OPEN_BLUEPRINTS = EmptyBlueprints
    /\ firebase_client = FALSE
    /\ url = NoneVal /\ domain = "e-commerce" /\ api_key = NoneVal
    /\ markdown_content = NoneVal
    /\ pc = "repair_fn"
    /\ blueprint \in Schemas
    /\ is_premium = FALSE /\ doc = DocUnread /\ key_doc = KeyUnread
    /\ markdown = NoneVal /\ model = NoneVal /\ self_model = NoneVal
    /\ original \in JsonValues
    /\ heap = [EmptyHeap EXCEPT ![1] = original]
    /\ extracted_data = 1
    /\ is_valid = <<>> /\ fix = <<>> /\ returned = 0 /\ error = "none"
    /\ calls = NoCalls
    /\ fetched = Unfetched
    /\ AuxIdle

\* validate_and_fix_required_fields(record, schema)
RepairOnce ==
    /\ pc = "repair_fn"
    /\ fix = <<>>
    /\ LET r == validate_and_fix_required_fields(heap, extracted_data, blueprint)
       IN  /\ fix' = <<[raised |-> r.raised, ref |-> r.ref]>>
           /\ heap' = r.heap
    /\ UNCHANGED <<auxVars, fetched, envVars, argVars, pc, blueprint, is_premium, doc, key_doc,
                   markdown, modelVars, extracted_data, original, is_valid,
                   returned, error, calls>>

\* validate_and_fix_required_fields(<the first result>, schema)
RepairAgain ==
    /\ pc = "repair_fn"
    /\ Len(fix) = 1
    /\ ~fix[1].raised
    /\ LET r == validate_and_fix_required_fields(heap, fix[1].ref, blueprint)
       IN  /\ fix' = Append(fix, [raised |-> r.raised, ref |-> r.ref])
           /\ heap' = r.heap
    /\ UNCHANGED <<auxVars, fetched, envVars, argVars, pc, blueprint, is_premium, doc, key_doc,
                   markdown, modelVars, extracted_data, original, is_valid,
                   returned, error, calls>>

NextRepair == RepairOnce \/ RepairAgain

SpecRepair == InitRepair /\ [][NextRepair]_vars

\* ------------------------------------------- the loader, file by file
InitLoad ==
    /\ DefaultConfig
    /\ dir \in DirListings(LoaderFiles, MaxFiles)
    /\ idx = 1
    /\ OPEN_BLUEPRINTS = EmptyBlueprints
    /\ firebase_client = FALSE
    /\ url = NoneVal /\ domain = "e-commerce" /\ api_key = NoneVal
    /\ markdown_content = NoneVal
    /\ pc = "import"
    /\ Fresh
    /\ AuxIdle

\* one iteration of `for blueprint_file in blueprints_path.glob("*.json")`
LoadStep ==
    /\ pc = "import"
    /\ idx <= Len(dir)
    /\ OPEN_BLUEPRINTS' = LoadFile(OPEN_BLUEPRINTS, dir, idx)
    /\ idx' = idx + 1
    /\ UNCHANGED <<auxVars, fetched, LLM_MODEL, LLM_MODEL_PREMIUM, dir,
                   firebase_client, argVars, pc, blueprint, is_premium,
                   doc, key_doc, markdown, modelVars, heap, extracted_data,
                   original, is_valid, fix, returned, error, calls>>

\* return blueprints
LoadDone ==
    /\ pc = "import"
    /\ idx > Len(dir)
    /\ pc' = "imported"
    /\ UNCHANGED <<auxVars, fetched, envVars, argVars, blueprint, is_premium, doc, key_doc,
                   markdown, modelVars, heap, extracted_data, original, is_valid,
                   fix, returned, error, calls>>

NextLoad == LoadStep \/ LoadDone

SpecLoad == InitLoad /\ [][NextLoad]_vars

\* ------------------------------------------------------------------ claims
Terminal == pc \in {"done", "failed"}
IsOpen == is_open_blueprint(OPEN_BLUEPRINTS, domain)
ResolutionErrors ==
    {"Configuration", "AuthRequired", "NotFound", "AccessDenied", "FetchFailed",
     "SchemaInvalidJson", "SchemaNotString", "SchemaMissing"}
ResolutionFailed == pc = "failed" /\ error \in ResolutionErrors
NoSourceGiven == ~Truthy(url) /\ ~Truthy(markdown_content)

\* the access-control document read for the credential grants the domain
KeyGrants ==
    /\ Truthy(api_key)
    /\ key_doc.state = "present"
    /\ key_doc.active = "true"
    /\ key_doc.allowedKind = "list"
    /\ (domain \in key_doc.allowed \/ "*" \in key_doc.allowed)

\* C1: for a domain that is not bundled, with the remote store configured,
\* resolution yields a schema only if the credential is non-empty and its
\* access-control document exists, is active and lists the domain or '*';
\* in every other case resolution has failed and no schema is held.
C1_ProtectedNeedsAccess ==
    (~IsOpen /\ firebase_client /\ pc # "step1") =>
        /\ blueprint # NoSchema => KeyGrants
        /\ ~KeyGrants => (ResolutionFailed /\ blueprint = NoSchema)

\* C1 witness: a protected schema was granted through the wildcard alone
C1_Witness ==
    /\ ~IsOpen /\ pc = "step2" /\ is_premium /\ blueprint # NoSchema
    /\ key_doc.allowed = {"*"}

\* C2: for a bundled domain, whatever the credential and the store
\* configuration, resolution yields the bundled schema with is_premium
\* false, reads nothing from the remote store and does not fail.
C2_BundledIgnoresCredential ==
    (IsOpen /\ pc # "step1") =>
        /\ blueprint = get_open_blueprint(OPEN_BLUEPRINTS, dir, domain)
        /\ is_premium = FALSE
        /\ calls.doc = 0 /\ calls.key = 0
        /\ doc = DocUnread /\ key_doc = KeyUnread
        /\ ~ResolutionFailed

\* C2 witness: a bundled domain resolved with a credential and no client
C2_Witness ==
    /\ IsOpen /\ pc = "step2" /\ api_key = "key" /\ ~firebase_client
    /\ domain = "ecommerce"

\* C3 as stated: with neither url nor content, extract ends with the
\* invalid-input error and no backend was called, for every domain.
C3_NoSourceFailsBeforeAnyBackend ==
    (NoSourceGiven /\ Terminal) =>
        /\ pc = "failed" /\ error = "InvalidInput"
        /\ calls.doc = 0 /\ calls.key = 0 /\ calls.scrape = 0 /\ calls.llm = 0

\* C3 amended: with neither url nor content, extract fails and neither the
\* scrape nor the model backend is ever called; the failure is the
\* invalid-input error whenever the blueprint was resolved, and for a
\* bundled domain nothing was read from the remote store either.
C3_NoSourceAmended ==
    NoSourceGiven =>
        /\ calls.scrape = 0 /\ calls.llm = 0
        /\ pc # "done"
        /\ (Terminal /\ blueprint # NoSchema) => error = "InvalidInput"
        /\ (Terminal /\ IsOpen) =>
              (error = "InvalidInput" /\ calls.doc = 0 /\ calls.key = 0)

\* C3 witness: a bundled domain, no url, no content: invalid input
C3_Witness ==
    /\ NoSourceGiven /\ IsOpen /\ pc = "failed" /\ error = "InvalidInput"
    /\ calls = NoCalls

\* C4: once the model returned a parsed value, step 5 never raises: extract
\* ends returning a record, the original one if the first validation passed.
C4_Step5NeverRaises ==
    (original # Free /\ Terminal) =>
        /\ pc = "done" /\ error = "none" /\ returned # 0
        /\ is_valid[1] => returned = 1

\* C5: for a domain that is not bundled, without a remote-store client,
\* extract fails with the configuration error whatever the credential, url
\* and content, and neither the scrape nor the model backend is called.
C5_NoClientIsConfigurationError ==
    (~IsOpen /\ ~firebase_client /\ pc # "step1") =>
        /\ pc = "failed" /\ error = "Configuration"
        /\ calls = NoCalls

\* C5 witness: no client and no credential either: still the configuration error
C5_Witness ==
    /\ ~IsOpen /\ ~firebase_client /\ ~Truthy(api_key)
    /\ pc = "failed" /\ error = "Configuration"

\* C6: when the record the model returned passes the first validation,
\* extract returns that very record, unchanged, and the repair pass is not
\* run.
C6_ValidRecordReturnedUnchanged ==
    (Len(is_valid) >= 1 /\ is_valid[1]) =>
        /\ calls.repair = 0 /\ fix = <<>>
        /\ calls.validate = 1
        /\ extracted_data = 1
        /\ heap[1] = original
        /\ pc \in {"return", "done"}
        /\ pc = "done" => (returned = 1 /\ error = "none")

\* C6 witness: an object that satisfies a schema with a required field was
\* returned
C6_Witness ==
    /\ pc = "done" /\ is_valid = <<TRUE>> /\ returned = 1
    /\ original.kind = "dict" /\ blueprint.required # <<>>

\* the required fields the record lacks
Missing(data, schema) ==
    {schema.required[i] : i \in DOMAIN schema.required} \ DOMAIN data.d

\* the record fails validation only because required fields are missing, and
\* each missing field has a declared default that satisfies its own schema
OnlyMissingWithGoodDefaults(data, schema) ==
    /\ data.kind = "dict"
    /\ WellFormed(schema)
    /\ ValidationErrors(data, schema) = {"required"}
    /\ \A f \in Missing(data, schema) :
        /\ f \in DOMAIN schema.properties
        /\ schema.properties[f].hasDefault
        /\ TypeOK(schema.properties[f].default, schema.properties[f].type)

\* C7: when the record fails validation only because required top-level
\* fields are missing and each has a schema default satisfying its schema,
\* extract returns the original record extended with exactly those
\* defaults, and the re-validation passes.
C7_MissingFieldsGetDefaults ==
    (pc = "done" /\ OnlyMissingWithGoodDefaults(original, blueprint)) =>
        /\ is_valid = <<FALSE, TRUE>>
        /\ heap[returned] =
              Dict([f \in DOMAIN original.d \cup Missing(original, blueprint) |->
                      IF f \in DOMAIN original.d THEN original.d[f]
                      ELSE blueprint.properties[f].default])

\* C7 witness: one field present, one required field filled with its
\* (non-null) default
C7_Witness ==
    /\ pc = "done" /\ OnlyMissingWithGoodDefaults(original, blueprint)
    /\ DOMAIN original.d = {"price"}
    /\ blueprint.properties["product_name"].default = "str:"
    /\ blueprint.properties["product_name"].type = "string"

\* C8: the repair pass is idempotent: repairing its own result changes
\* nothing.
C8_RepairIdempotent ==
    Len(fix) = 2 =>
        /\ ~fix[2].raised
        /\ heap[fix[2].ref] = heap[fix[1].ref]

\* C8 witness: the first pass filled two fields, the second was applied
C8_Witness ==
    /\ Len(fix) = 2
    /\ original.kind = "dict" /\ DOMAIN original.d = {}
    /\ DOMAIN heap[fix[1].ref].d = Fields

\* C9: the repair pass never removes or overwrites a field already present
\* (a null or wrongly typed value included) and does not modify the record
\* object it is given.
C9_RepairKeepsPresentFields ==
    Len(fix) >= 1 =>
        /\ heap[1] = original
        /\ ~fix[1].raised =>
              LET out == heap[fix[1].ref] IN
              /\ out.kind = original.kind
              /\ out.items = original.items
              /\ \A f \in DOMAIN original.d :
                    f \in DOMAIN out.d /\ out.d[f] = original.d[f]

\* C9 witness: a present null under a required string field with a default
\* is kept while another field is added
C9_Witness ==
    /\ Len(fix) >= 1 /\ ~fix[1].raised
    /\ DOMAIN original.d = {"product_name"}
    /\ original.d["product_name"] = JNull
    /\ blueprint.required = <<"product_name", "price">>
    /\ "product_name" \in DOMAIN blueprint.properties
    /\ blueprint.properties["product_name"].type = "string"
    /\ blueprint.properties["product_name"].default = "str:"
    /\ DOMAIN heap[fix[1].ref].d = Fields

\* C10: after the loader has run on any directory, the spellings
\* 'e-commerce' and 'ecommerce' are both absent from the bundled set or both
\* map to the same schema object.
C10_AliasPairSameObject ==
    pc = "imported" =>
        /\ ("e-commerce" \in DOMAIN OPEN_BLUEPRINTS)
              <=> ("ecommerce" \in DOMAIN OPEN_BLUEPRINTS)
        /\ "e-commerce" \in DOMAIN OPEN_BLUEPRINTS =>
              OPEN_BLUEPRINTS["e-commerce"] = OPEN_BLUEPRINTS["ecommerce"]

\* C10 witness: both files exist and parse, the non-hyphenated one is
\* loaded last and both names map to its object
C10_Witness ==
    /\ pc = "imported" /\ Len(dir) = 3
    /\ dir[1].stem = "e-commerce" /\ dir[1].parses
    /\ dir[3].stem = "ecommerce" /\ dir[3].parses
    /\ dir[1].schema # dir[3].schema
    /\ OPEN_BLUEPRINTS["e-commerce"] = 3

\* ------------------------------------------------ claims on the HTTP layer
Responded == response # NoResponse

\* C11 as stated: when the domain is neither bundled nor present in the
\* remote store, the failure of the pipeline is answered with status 404.
C11_NotFoundIs404 ==
    (error = "NotFound" /\ Responded) => response.status = 404

\* C11 amended: when the domain is neither bundled nor present in the remote
\* store, the failure (a ValueError) is answered with status 400 and its
\* message as detail; no outcome of the pipeline is answered with 404.
C11_NotFoundIs400 ==
    /\ (error = "NotFound" /\ Responded) =>
          (response.status = 400 /\ response.detail = "message")
    /\ response.status # 404

\* C11 witness: the store has no document for the domain and the handler
\* answered 400
C11_Witness ==
    /\ ~IsOpen /\ doc.state = "absent" /\ error = "NotFound"
    /\ response.status = 400

\* C12: the handler maps the failure of the pipeline by its class alone
\* (FileNotFoundError 404, any other ValueError 400, every other exception
\* 500 with a detail starting 'Internal server error'), and a successful run
\* is answered with success=true and the record as data.
C12_MappedByClassAlone ==
    Responded =>
        IF pc = "done"
        THEN /\ response.success /\ response.status = 200
             /\ response.data = heap[returned]
        ELSE /\ ~response.success
             /\ response.status =
                   (IF ErrorClass(error) = "FileNotFoundError" THEN 404
                    ELSE IF ErrorClass(error) = "ValueError" THEN 400
                    ELSE 500)
             /\ response.status = 500 <=>
                   response.detail = "Internal server error: message"

\* the text step 2 obtained, fetched from the url or supplied by the caller,
\* is empty after trimming
EmptyTextObtained ==
    \/ fetched \in Texts /\ Strip(fetched) = ""
    \/ markdown \in Texts /\ Strip(markdown) = ""

\* C13: whenever the text obtained in step 2 is empty after trimming, extract
\* fails with the invalid-input failure, a ValueError the handler answers
\* with 400, and the model backend is never called.
C13_EmptyTextIsInvalidInput ==
    (EmptyTextObtained /\ Terminal) =>
        /\ pc = "failed" /\ ErrorClass(error) = "ValueError"
        /\ calls.llm = 0
        /\ Responded => response.status = 400

\* ------------------------------------------------------ claims on retries
CallsBounded ==
    /\ calls.doc <= 1 /\ calls.key <= 1 /\ calls.scrape <= 1 /\ calls.llm <= 1
    /\ calls.validate <= 2 /\ calls.repair <= 1

\* C14: nothing is retried: in one invocation the blueprint document lookup,
\* the access-control lookup, the scrape backend and the model backend are
\* each called at most once, validation at most twice and the repair pass at
\* most once; once a step has failed the invocation stays failed with that
\* failure and makes no further call.
C14_NothingRetried ==
    [][/\ CallsBounded'
       /\ pc = "failed" =>
             (pc' = "failed" /\ error' = error /\ calls' = calls)]_vars

\* C14 witness: an invocation that made every call the pipeline can make
C14_Witness ==
    /\ pc = "done"
    /\ calls = [doc |-> 1, key |-> 1, scrape |-> 1, llm |-> 1, validate |-> 2,
                repair |-> 1]

\* ------------------------------------------- claims on the content source
BothSourcesGiven == Truthy(url) /\ Truthy(markdown_content)

\* C19 as stated: exactly one content source must be present: an invocation
\* supplying both a url and content, like one supplying neither, is rejected
\* and does not reach the model backend.
C19_ExactlyOneSource ==
    (BothSourcesGiven \/ NoSourceGiven) => (pc # "done" /\ calls.llm = 0)

\* C19 amended: an invocation supplying neither a url nor content is rejected
\* and does not reach the model backend; one supplying both is accepted: the
\* content is used as the text, the url is ignored and the scrape backend is
\* never called, and it is rejected in step 2 only when the content is blank.
C19_ContentWinsOverUrl ==
    /\ NoSourceGiven => (pc # "done" /\ calls.llm = 0)
    /\ BothSourcesGiven =>
          /\ calls.scrape = 0 /\ fetched = Unfetched
          /\ error # "InvalidInput"
          /\ pc \notin {"step1", "step2", "failed"} => markdown = markdown_content
          /\ error = "NoContent" <=>
                (Strip(markdown_content) = "" /\ markdown = markdown_content)

\* C19 witness: both a url and content were given and the model backend was
\* called with the content as text
C19_Witness ==
    /\ BothSourcesGiven /\ pc = "done" /\ calls.llm = 1 /\ calls.scrape = 0
    /\ markdown = markdown_content

\* ------------------------------------------------- the two HTTP endpoints
\* the invocation of extract is not part of this specification
PipelineIdle ==
    /\ DefaultConfig
    /\ dir = <<>> /\ idx = 1 /\ OPEN_BLUEPRINTS = EmptyBlueprints
    /\ firebase_client = FALSE
    /\ url = NoneVal /\ domain = "e-commerce" /\ api_key = NoneVal
    /\ markdown_content = NoneVal
    /\ pc = "idle"
    /\ Fresh

\* mutant: the body (or form) key is preferred
PyOrSecondFirst(a, b) == IF Truthy(b) THEN b ELSE a

\* Python's `a or b` on two Optional[str]
PyOr(a, b) == IF Truthy(a) THEN a ELSE b

\* a request to /extract or /extract/file, with or without the X-API-Key
\* header and the api_key field of the body (or form)
InitApi ==
    /\ PipelineIdle
    /\ response = NoResponse
    /\ FileIdle /\ InitIdle /\ PoolIdle /\ ConcIdle
    /\ endpoint \in {"extract", "extract_file"}
    /\ x_api_key \in {NoneVal, "", "header-key"}
    /\ body_api_key \in {NoneVal, "", "body-key"}
    /\ hpc = "received"
    /\ passed = NotPassed
    /\ outcome = NoOutcome

\* /extract up to the call of extraction_service.extract
ApiExtract ==
    /\ hpc = "received"
    /\ endpoint = "extract"
    /\ passed' = [url |-> "u", api_key |-> PyOr(x_api_key, body_api_key),
                  markdown_content |-> NoneVal, called |-> TRUE]
    /\ hpc' = "calling"
    /\ UNCHANGED <<pipeVars, response, endpoint, x_api_key, body_api_key,
                   outcome, fileVars, initVars, poolVars, concVars>>

\* /extract/file up to the call of extraction_service.extract: the file
\* extractor returns a text or raises a ValueError
ApiExtractFile ==
    /\ hpc = "received"
    /\ endpoint = "extract_file"
    /\ \E res \in {"<ValueError>"} \cup Texts :
        IF res = "<ValueError>"
        THEN /\ outcome' = [cls |-> "ValueError", value |-> Free]
             /\ hpc' = "returned"
             /\ passed' = passed
        ELSE /\ passed' = [url |-> NoneVal,
                           api_key |-> PyOr(x_api_key, body_api_key),
                           markdown_content |-> res, called |-> TRUE]
             /\ hpc' = "calling"
             /\ outcome' = outcome
    /\ UNCHANGED <<pipeVars, response, endpoint, x_api_key, body_api_key,
                   fileVars, initVars, poolVars, concVars>>

\* what extract can do with the arguments: raise (ValueError, the repair
\* pass's TypeError or AttributeError, a plain Exception) or, when it was
\* given a url or non-blank content, return a record
ExtractOutcomes(args) ==
    {[cls |-> c, value |-> Free] :
        c \in {"ValueError", "TypeError", "AttributeError", "Exception"}}
      \cup (IF Truthy(args.url) \/ Strip(args.markdown_content) \notin {NoneVal, ""}
            THEN {[cls |-> "none", value |-> v] : v \in JsonValues}
            ELSE {})

\* extraction_service.extract returns or raises
ApiExtractReturns ==
    /\ hpc = "calling"
    /\ outcome' \in ExtractOutcomes(passed)
    /\ hpc' = "returned"
    /\ UNCHANGED <<pipeVars, response, endpoint, x_api_key, body_api_key,
                   passed, fileVars, initVars, poolVars, concVars>>

\* the response is built or the exception mapped
ApiRespond ==
    /\ hpc = "returned"
    /\ response' \in Handle(outcome.cls, outcome.value)
    /\ hpc' = "responded"
    /\ UNCHANGED <<pipeVars, endpoint, x_api_key, body_api_key, passed,
                   outcome, fileVars, initVars, poolVars, concVars>>

NextApi == ApiExtract \/ ApiExtractFile \/ ApiExtractReturns \/ ApiRespond

SpecApi == InitApi /\ [][NextApi]_vars

NameParts == {"notes", "md", "MARKDOWN", "Txt", "html", "HTM", "pdf", "exe", ""}
\* str.lower() on those parts
Lower(p) ==
    IF p = "MARKDOWN" THEN "markdown"
    ELSE IF p = "Txt" THEN "txt"
    ELSE IF p = "HTM" THEN "htm"
    ELSE p
\* UploadFile.filename: None, or a name given by its parts (<<"">> is "")
NoName == <<>>
FileNames == {NoName} \cup UNION {[1..k -> NameParts] : k \in 1..MaxNameParts}

\* file.filename.split('.')[-1].lower() if file.filename else ''
FileExtension(filename) ==
    IF filename = NoName \/ filename = <<"">> THEN ""
    ELSE Lower(filename[Len(filename)])

\* the bytes enumerated: 'a', the two bytes of 'e-acute' (a lead byte and a
\* continuation byte), and a byte no UTF-8 text contains
Utf8Bytes == {97, 195, 169, 255}
FileContents == UNION {[1..k -> Utf8Bytes] : k \in 0..MaxBytes}

RECURSIVE Utf8Decode(_, _)
\* bytes.decode('utf-8') (ignore = FALSE) and bytes.decode('utf-8',
\* errors='ignore'): ok is FALSE where Python raises UnicodeDecodeError
Utf8Decode(b, ignore) ==
    IF b = <<>> THEN [ok |-> TRUE, text |-> <<>>]
    ELSE IF b[1] = 97
    THEN LET r == Utf8Decode(Tail(b), ignore)
         IN  [ok |-> r.ok, text |-> <<"a">> \o r.text]
    ELSE IF b[1] = 195 /\ Len(b) >= 2 /\ b[2] = 169
    THEN LET r == Utf8Decode(Tail(Tail(b)), ignore)
         IN  [ok |-> r.ok, text |-> <<"e-acute">> \o r.text]
    ELSE IF ignore THEN Utf8Decode(Tail(b), ignore)
    ELSE [ok |-> FALSE, text |-> <<>>]

Returns(text) == [raised |-> "none", reports |-> "none", text |-> text]
\* the outer `except Exception`: raise ValueError("Failed to extract content
\* from file: " + str(e)), which keeps what the inner message reports
Wrapped(reports) == [raised |-> "ValueError", reports |-> reports, text |-> <<>>]

\* what the HTML and PDF helpers do with the bytes: return a text or raise
HelperResults ==
    {[raised |-> c, text |-> <<>>] : c \in {"ValueError", "Exception"}}
        \cup {[raised |-> "none", text |-> t] : t \in {<<>>, <<"a">>}}

\* mutant: no second decoding with errors='ignore' for text files
ExtractMarkdownStrictOnly(file, helper) ==
    LET ext == FileExtension(file.filename)
        strict == Utf8Decode(file.content, FALSE)
    IN  IF ext \in {"md", "markdown", "txt"}
        THEN IF strict.ok THEN Returns(strict.text) ELSE Wrapped("decode")
        ELSE IF ext \in {"html", "htm", "pdf"}
        THEN IF helper.raised = "none" THEN Returns(helper.text)
             ELSE Wrapped("helper")
        ELSE IF strict.ok THEN Returns(strict.text)
             ELSE Wrapped("unsupported")

\* FileExtractor.extract_markdown(file)
extract_markdown(file, helper) ==
    LET ext == FileExtension(file.filename)
        strict == Utf8Decode(file.content, FALSE)
    IN  IF ext \in {"md", "markdown", "txt"}
        THEN IF strict.ok THEN Returns(strict.text)
             ELSE Returns(Utf8Decode(file.content, TRUE).text)
        ELSE IF ext \in {"html", "htm", "pdf"}
        THEN IF helper.raised = "none" THEN Returns(helper.text)
             ELSE Wrapped("helper")
        ELSE IF strict.ok THEN Returns(strict.text)
             ELSE Wrapped("unsupported")

\* a file of any enumerated name and bytes is uploaded
InitFile ==
    /\ PipelineIdle
    /\ response = NoResponse
    /\ ApiIdle /\ InitIdle /\ PoolIdle /\ ConcIdle
    /\ upload \in [filename : FileNames, content : FileContents]
    /\ fpc = "called"
    /\ extracted = NotExtracted

\* await file_extractor.extract_markdown(file)
ExtractFile ==
    /\ fpc = "called"
    /\ \E helper \in HelperResults :
          extracted' = extract_markdown(upload, helper)
    /\ fpc' = "returned"
    /\ UNCHANGED <<pipeVars, response, upload, apiVars, initVars, poolVars,
                   concVars>>

NextFile == ExtractFile

SpecFile == InitFile /\ [][NextFile]_vars

\* the names whose last part, in any case, is a text, HTML or PDF extension
TextNames ==
    {n \in FileNames \ {NoName} : n[Len(n)] \in {"md", "MARKDOWN", "Txt"}}
ParsedNames ==
    {n \in FileNames \ {NoName} : n[Len(n)] \in {"html", "HTM", "pdf"}}
ValidUtf8(b) == Utf8Decode(b, FALSE).ok

\* C20: extract_markdown dispatches on the lower-cased last extension: for
\* md, markdown and txt it never fails and returns the UTF-8 decoding of the
\* bytes when they are valid UTF-8; for an unknown extension it returns the
\* UTF-8 decoding when the bytes are valid UTF-8 and otherwise fails with a
\* ValueError reporting an unsupported file type; every failure it raises is
\* a ValueError.
C20_DispatchOnExtension ==
    fpc = "returned" =>
        /\ extracted.raised \in {"none", "ValueError"}
        /\ upload.filename \in TextNames =>
              /\ extracted.raised = "none"
              /\ ValidUtf8(upload.content) =>
                    extracted.text = Utf8Decode(upload.content, FALSE).text
        /\ upload.filename \notin TextNames \cup ParsedNames =>
              IF ValidUtf8(upload.content)
              THEN /\ extracted.raised = "none"
                   /\ extracted.text = Utf8Decode(upload.content, FALSE).text
              ELSE /\ extracted.raised = "ValueError"
                   /\ extracted.reports = "unsupported"

\* C20 witness: an upper-case text extension after another extension, bytes
\* that are not valid UTF-8: the text is returned without the invalid byte
C20_Witness ==
    /\ fpc = "returned"
    /\ upload.filename = <<"exe", "MARKDOWN">>
    /\ upload.content = <<97, 255>>
    /\ extracted = Returns(<<"a">>)

\* ------------------------------ constructions of FirebaseBlueprintClient
Threads == 1..MaxThreads

\* each thread constructs one client, with credentials the SDK accepts or
\* not; threads take their steps in any order, one after the other included
InitConstruct ==
    /\ PipelineIdle
    /\ response = NoResponse
    /\ ApiIdle /\ FileIdle /\ PoolIdle /\ ConcIdle
    /\ thr \in [Threads -> [pc : {"new"}, credentials_json : {"valid", "invalid"},
                            error : {"none"}]]
    /\ _firebase_app = NoneVal
    /\ sdk_app = FALSE
    /\ init_ok = 0
    /\ app_writes = 0

At(t, where) == thr[t].pc = where
Goto(t, where) == thr' = [thr EXCEPT ![t].pc = where]
\* the except clauses of _init_firebase: ValueError("Failed to initialize
\* Firebase: ...")
InitFails(t, e) == thr' = [thr EXCEPT ![t].pc = "failed", ![t].error = e]

\* __init__ up to the call of _init_firebase
Construct(t) ==
    /\ At(t, "new")
    /\ Goto(t, "check")
    /\ UNCHANGED <<pipeVars, response, _firebase_app, sdk_app, init_ok,
                   app_writes, apiVars, fileVars, poolVars, concVars>>

\* if _firebase_app is None:
CheckApp(t) ==
    /\ At(t, "check")
    /\ Goto(t, IF _firebase_app = NoneVal THEN "parse" ELSE "client")
    /\ UNCHANGED <<pipeVars, response, _firebase_app, sdk_app, init_ok,
                   app_writes, apiVars, fileVars, poolVars, concVars>>

\* json.loads(self.credentials_json) and credentials.Certificate(cred_dict)
ParseCredentials(t) ==
    /\ At(t, "parse")
    /\ IF thr[t].credentials_json = "valid"
       THEN Goto(t, "initialize")
       ELSE InitFails(t, "InvalidCredentials")
    /\ UNCHANGED <<pipeVars, response, _firebase_app, sdk_app, init_ok,
                   app_writes, apiVars, fileVars, poolVars, concVars>>

\* firebase_admin.initialize_app(cred, {...}): under the SDK's own lock it
\* registers the default app, or raises ValueError when one is registered
InitializeApp(t) ==
    /\ At(t, "initialize")
    /\ IF sdk_app
       THEN /\ InitFails(t, "AppExists")
            /\ UNCHANGED <<sdk_app, init_ok>>
       ELSE /\ sdk_app' = TRUE
            /\ init_ok' = init_ok + 1
            /\ Goto(t, "assign")
    /\ UNCHANGED <<pipeVars, response, _firebase_app, app_writes, apiVars,
                   fileVars, poolVars, concVars>>

\* _firebase_app = <the app initialize_app returned>
AssignApp(t) ==
    /\ At(t, "assign")
    /\ _firebase_app' = "app"
    /\ app_writes' = app_writes + 1
    /\ Goto(t, "client")
    /\ UNCHANGED <<pipeVars, response, sdk_app, init_ok, apiVars, fileVars,
                   poolVars, concVars>>

\* self.db = firestore.client()
GetClient(t) ==
    /\ At(t, "client")
    /\ Goto(t, "done")
    /\ UNCHANGED <<pipeVars, response, _firebase_app, sdk_app, init_ok,
                   app_writes, apiVars, fileVars, poolVars, concVars>>

NextConstruct ==
    \E t \in Threads :
        \/ Construct(t)
        \/ CheckApp(t)
        \/ ParseCredentials(t)
        \/ InitializeApp(t)
        \/ AssignApp(t)
        \/ GetClient(t)

SpecConstruct == InitConstruct /\ [][NextConstruct]_vars

\* C15: for any number of constructions, sequential or concurrent in
\* different threads, initialize_app is executed successfully at most once,
\* the module global is written at most once, and no construction fails
\* because another one initialized the SDK first.
C15_InitializedAtMostOnce ==
    /\ init_ok <= 1
    /\ app_writes <= 1
    /\ \A t \in Threads : thr[t].error # "AppExists"

\* --------------------------------------------------------- the scrape pool
\* _executor = ThreadPoolExecutor(max_workers=5)
max_workers == 5
ScrapeCalls == 1..MaxCalls
RunningCalls == {i \in ScrapeCalls : call[i] = "running"}

\* no scrape call has been submitted
InitPool ==
    /\ PipelineIdle
    /\ response = NoResponse
    /\ ApiIdle /\ FileIdle /\ InitIdle /\ ConcIdle
    /\ call = [i \in ScrapeCalls |-> "new"]
    /\ work_queue = <<>>

\* loop.run_in_executor(_executor, self._extract_sync, url): the call is put
\* on the executor's queue (calls are numbered in the order of submission)
Submit(i) ==
    /\ call[i] = "new"
    /\ \A j \in ScrapeCalls : j < i => call[j] # "new"
    /\ call' = [call EXCEPT ![i] = "queued"]
    /\ work_queue' = Append(work_queue, i)
    /\ UNCHANGED <<pipeVars, response, apiVars, fileVars, initVars, concVars>>

\* mutant: a thread is started for every submitted call
StartWorkUnbounded ==
    /\ work_queue # <<>>
    /\ call' = [call EXCEPT ![Head(work_queue)] = "running"]
    /\ work_queue' = Tail(work_queue)
    /\ UNCHANGED <<pipeVars, response, apiVars, fileVars, initVars, concVars>>

\* a worker thread, of which the executor keeps at most max_workers, takes
\* the oldest call off the queue and runs _extract_sync
StartWork ==
    /\ work_queue # <<>>
    /\ Cardinality(RunningCalls) < max_workers
    /\ call' = [call EXCEPT ![Head(work_queue)] = "running"]
    /\ work_queue' = Tail(work_queue)
    /\ UNCHANGED <<pipeVars, response, apiVars, fileVars, initVars, concVars>>

\* _extract_sync returns or raises; its worker is free again
FinishWork(i) ==
    /\ call[i] = "running"
    /\ call' = [call EXCEPT ![i] = "done"]
    /\ UNCHANGED <<pipeVars, response, work_queue, apiVars, fileVars, initVars,
                   concVars>>

NextPool ==
    \/ \E i \in ScrapeCalls : Submit(i)
    \/ StartWork
    \/ \E i \in ScrapeCalls : FinishWork(i)

SpecPool == InitPool /\ [][NextPool]_vars

\* a free worker takes the next queued call, and every running scrape call
\* ends (it returns, raises or times out)
SpecPoolFair ==
    /\ SpecPool
    /\ WF_vars(StartWork)
    /\ \A i \in ScrapeCalls : WF_vars(FinishWork(i))

\* at most max_workers calls run, and a submitted call is on the queue
\* exactly once until it runs
PoolSafe ==
    /\ Cardinality(RunningCalls) <= max_workers
    /\ \A i \in ScrapeCalls :
          call[i] = "queued" <=>
             Cardinality({k \in DOMAIN work_queue : work_queue[k] = i}) = 1
    /\ \A k \in DOMAIN work_queue : call[work_queue[k]] = "queued"

\* C16: scrape calls run only on the shared pool: at every moment at most 5
\* of them are executing, the excess calls wait on the queue without being
\* dropped, and each waiting call is eventually started once running ones
\* finish.
C16_BoundedPool ==
    /\ []PoolSafe
    /\ \A i \in ScrapeCalls :
          (call[i] = "queued") ~> (call[i] \in {"running", "done"})

\* C16 witness: five calls are running and another one waits
C16_Witness ==
    /\ Cardinality(RunningCalls) = max_workers
    /\ work_queue # <<>>

\* ------------------------------------------ concurrent invocations of extract
Invocations == 1..MaxInvocations

\* the service the invocations run on: one bundled blueprint and a
\* remote-store client
BundledSchema ==
    CHOOSE s \in PipelineSchemas :
        s.type = "object" /\ s.required = <<"product_name">>
ProtectedSchema ==
    CHOOSE s \in PipelineSchemas : s.type = "any" /\ s.required = <<>>
ConcDir == <<[stem |-> "e-commerce", parses |-> TRUE, schema |-> BundledSchema]>>

\* the answers of the backends to one invocation
ConcDocReads ==
    {d \in DocReads :
        d.state = "absent" \/ (d.schemaKind = "json" /\ d.schema = ProtectedSchema)}
ConcKeyReads ==
    {k \in KeyReads :
        k.state = "absent" \/ (k.active = "true" /\ k.allowed = {"*"})}
ConcScrapes == {"<failure>", "text"}
NoAnswer == [kind |-> "pending", value |-> Free]
ConcAnswers ==
    {a \in LlmAnswers :
        \/ a.kind = "bad_json"
        \/ a.kind = "json" /\ a.value \in {Dict(EmptyD), List(<<>>),
                                           Dict([f \in {"product_name"} |-> "str:"])}}

\* the arguments of an invocation and its locals before its first statement
ConcLocals ==
    [pc : {"step1"}, domain : {"e-commerce", "medical"}, api_key : {"key"},
     url : {"u"}, markdown_content : {NoneVal, "text"},
     doc : {DocUnread}, key_doc : {KeyUnread}, scraped : {Unfetched},
     answer : {NoAnswer}, is_premium : {FALSE}, markdown : {NoneVal},
     model : {NoneVal}, error : {"none"}, value : {Free}]

\* mutant: the blueprint is kept in an attribute of the service
BlueprintCellOnService(i) == 0

\* where invocation i keeps its blueprint: the local variable of its own
\* frame (cell 0 would be an attribute of the shared service object)
BlueprintCell(i) == i

InitConc ==
    /\ DefaultConfig
    /\ dir = ConcDir /\ idx = Len(dir) + 1
    /\ OPEN_BLUEPRINTS = _load_open_blueprints(dir)
    /\ firebase_client = TRUE
    /\ url = NoneVal /\ domain = "e-commerce" /\ api_key = NoneVal
    /\ markdown_content = NoneVal
    /\ pc = "idle"
    /\ Fresh
    /\ response = NoResponse
    /\ ApiIdle /\ FileIdle /\ InitIdle /\ PoolIdle
    /\ inv \in [Invocations -> ConcLocals]
    /\ cell = [c \in 0..MaxInvocations |-> NoSchema]

\* Step 2 as a function of the arguments and the scrape backend's answer
Step2(u, content, scraped) ==
    IF Truthy(content)
    THEN IF Strip(content) = ""
         THEN [error |-> "NoContent", markdown |-> content, scraped |-> FALSE]
         ELSE [error |-> "none", markdown |-> content, scraped |-> FALSE]
    ELSE IF Truthy(u)
    THEN IF scraped = "<failure>" \/ ~Truthy(scraped) \/ Strip(scraped) = ""
         THEN [error |-> "ScrapeFailed", markdown |-> NoneVal, scraped |-> TRUE]
         ELSE [error |-> "none", markdown |-> scraped, scraped |-> TRUE]
    ELSE [error |-> "InvalidInput", markdown |-> NoneVal, scraped |-> FALSE]

\* Step 5 as a function of the parsed value and the blueprint
Step5(value, schema) ==
    IF validate_data(value, schema) THEN [error |-> "none", value |-> value]
    ELSE LET h == [EmptyHeap EXCEPT ![1] = value]
             r == validate_and_fix_required_fields(h, 1, schema)
         IN  IF r.raised
             THEN [error |-> IF value.kind = "scalar" THEN "RepairAttributeError"
                                                      ELSE "RepairTypeError",
                   value |-> Free]
             ELSE [error |-> "none", value |-> r.heap[r.ref]]

Failed(e) == [error |-> e, value |-> Free]

\* extract run alone on the service, with the arguments and the backend
\* answers recorded in a
RunAlone(a) ==
    LET r1 == load_blueprint(a.domain, a.api_key, OPEN_BLUEPRINTS, dir,
                             firebase_client, a.doc, a.key_doc)
        r2 == Step2(a.url, a.markdown_content, a.scraped)
        r4 == extract_structured_data(a.answer)
    IN  IF r1.error # "none" THEN Failed(r1.error)
        ELSE IF r2.error # "none" THEN Failed(r2.error)
        ELSE IF r4.error # "none" THEN Failed(r4.error)
        ELSE Step5(r4.value, r1.blueprint)

ConcUnchanged ==
    UNCHANGED <<fetched, envVars, argVars, pc, blueprint, is_premium, doc,
                key_doc, markdown, modelVars, heap, extracted_data, original,
                is_valid, fix, returned, error, calls, response, apiVars,
                fileVars, initVars, poolVars>>

\* Step 1 of invocation i
ConcResolve(i) ==
    /\ inv[i].pc = "step1"
    /\ \E dc \in ConcDocReads, kd \in ConcKeyReads :
        LET r == load_blueprint(inv[i].domain, inv[i].api_key, OPEN_BLUEPRINTS,
                                dir, firebase_client, dc, kd)
        IN  /\ inv' = [inv EXCEPT
                          ![i].doc = IF r.docRead THEN dc ELSE DocUnread,
                          ![i].key_doc = IF r.keyRead THEN kd ELSE KeyUnread,
                          ![i].is_premium = r.is_premium,
                          ![i].error = r.error,
                          ![i].pc = IF r.error = "none" THEN "step2" ELSE "failed"]
            /\ cell' = IF r.error = "none"
                       THEN [cell EXCEPT ![BlueprintCell(i)] = r.blueprint]
                       ELSE cell
    /\ ConcUnchanged

\* Step 2 of invocation i
ConcContent(i) ==
    /\ inv[i].pc = "step2"
    /\ \E s \in ConcScrapes :
        LET r == Step2(inv[i].url, inv[i].markdown_content, s)
        IN  inv' = [inv EXCEPT
                       ![i].scraped = IF r.scraped THEN s ELSE Unfetched,
                       ![i].markdown = r.markdown,
                       ![i].error = r.error,
                       ![i].pc = IF r.error = "none" THEN "step3" ELSE "failed"]
    /\ cell' = cell
    /\ ConcUnchanged

\* Steps 3 and 4 of invocation i
ConcLlm(i) ==
    /\ inv[i].pc = "step3"
    /\ \E ans \in ConcAnswers :
        LET r == extract_structured_data(ans)
        IN  inv' = [inv EXCEPT
                       ![i].answer = ans,
                       ![i].model = SelectModel(inv[i].is_premium),
                       ![i].value = r.value,
                       ![i].error = r.error,
                       ![i].pc = IF r.error = "none" THEN "step5" ELSE "failed"]
    /\ cell' = cell
    /\ ConcUnchanged

\* Step 5 of invocation i, on the blueprint it resolved
ConcStep5(i) ==
    /\ inv[i].pc = "step5"
    /\ LET r == Step5(inv[i].value, cell[BlueprintCell(i)])
       IN  inv' = [inv EXCEPT
                      ![i].value = r.value,
                      ![i].error = r.error,
                      ![i].pc = IF r.error = "none" THEN "done" ELSE "failed"]
    /\ cell' = cell
    /\ ConcUnchanged

NextConc ==
    \E i \in Invocations :
        \/ ConcResolve(i)
        \/ ConcContent(i)
        \/ ConcLlm(i)
        \/ ConcStep5(i)

SpecConc == InitConc /\ [][NextConc]_vars

\* the outcome of every ended invocation is its outcome when run alone
OutcomesAsAlone ==
    \A i \in Invocations :
        inv[i].pc \in {"done", "failed"} =>
            [error |-> inv[i].error, value |-> inv[i].value] = RunAlone(inv[i])

\* C17: concurrent invocations are independent: in any interleaving no step
\* of an invocation modifies the bundled set, the service's components or
\* the store handle, and each invocation's outcome equals its outcome when
\* run alone with the same backend answers.
C17_InvocationsIndependent ==
    [][/\ UNCHANGED <<dir, OPEN_BLUEPRINTS, firebase_client, _firebase_app>>
       /\ cell'[0] = cell[0]
       /\ OutcomesAsAlone']_vars

\* C17 witness: two interleaved invocations on different blueprints both
\* ended, one with a repaired record and one with the record as answered
C17_Witness ==
    /\ inv[1].pc = "done" /\ inv[2].pc = "done"
    /\ inv[1].domain = "e-commerce" /\ inv[2].domain = "medical"
    /\ inv[1].answer = inv[2].answer
    /\ inv[1].value # inv[2].value

\* --------------------------------------------- claims on the order of steps
\* C21: the steps of extract run in a fixed order, each after the previous
\* one succeeded: the scrape backend is called only after the blueprint was
\* resolved, the model backend only after a non-blank text was obtained,
\* validation only after the model returned a parsed value, the repair pass
\* only after a failed first validation; and with non-empty supplied content
\* the scrape backend is not called at all.
C21_StepsInOrder ==
    /\ calls.scrape > 0 => (blueprint # NoSchema /\ pc # "step1")
    /\ calls.llm > 0 =>
          /\ blueprint # NoSchema
          /\ markdown \in Texts /\ Strip(markdown) # ""
          /\ markdown \in {markdown_content, fetched}
    /\ calls.validate > 0 =>
          (calls.llm = 1 /\ original \in JsonValues /\ extracted_data # 0)
    /\ calls.repair > 0 =>
          (calls.validate >= 1 /\ Len(is_valid) >= 1 /\ ~is_valid[1])
    /\ Truthy(markdown_content) => (calls.scrape = 0 /\ fetched = Unfetched)

\* C21 witness: every step ran, in order: resolved, scraped, answered, first
\* validation failed, repaired, validated again, returned
C21_Witness ==
    /\ pc = "done" /\ fetched = "text" /\ markdown = "text"
    /\ is_valid = <<FALSE, TRUE>> /\ Len(fix) = 1
    /\ ~IsOpen

\* ----------------------------------------------------- the choice of model
\* extract under every configuration of the two model names: the bundled
\* set holds one blueprint, so that its two spellings are bundled domains
\* and the other domains are protected ones
ModelDirs ==
    {d \in PipelineDirs :
        /\ d # <<>>
        /\ d[1].stem = "e-commerce"
        /\ d[1].schema.type = "object" /\ d[1].schema.required # <<>>}

InitModel ==
    /\ LLM_MODEL \in ModelNames
    /\ LLM_MODEL_PREMIUM \in ModelNames
    /\ dir \in ModelDirs
    /\ idx = Len(dir) + 1
    /\ OPEN_BLUEPRINTS = _load_open_blueprints(dir)
    /\ firebase_client = TRUE
    /\ url \in {NoneVal, "u"}
    /\ domain \in Domains
    /\ api_key \in {NoneVal, "", "key"}
    /\ markdown_content \in {NoneVal, "text"}
    /\ pc = "step1"
    /\ Fresh
    /\ AuxIdle

SpecModel == InitModel /\ [][Next]_vars

\* the blueprint came from the bundled set (load_blueprint returned at its
\* first branch, reading nothing from the remote store)
FromBundled == IsOpen /\ calls.doc = 0
\* the blueprint came from the remote store
FromRemote == ~IsOpen /\ calls.doc = 1 /\ doc.state = "present"

\* C22 as stated: the name sent with the model call is the premium name
\* exactly when the blueprint came from the remote store and the standard
\* name exactly when it came from the bundled set, so that a bundled domain
\* is never sent to the premium model.
C22_PremiumIffRemote ==
    calls.llm > 0 =>
        /\ (self_model = LLM_MODEL_PREMIUM) <=> FromRemote
        /\ (self_model = LLM_MODEL) <=> FromBundled
        /\ IsOpen => self_model # LLM_MODEL_PREMIUM

\* C22 amended: extract hands the client the premium name exactly when the
\* blueprint came from the remote store (is_premium) and the standard name
\* when it came from the bundled set; the client sends that name unless it
\* is empty, and the standard name then. A bundled domain is sent with the
\* standard name whatever the credential; the two cases are told apart by
\* the name sent when the premium name is set and differs from the standard.
C22_SelectedByTier ==
    calls.llm > 0 =>
        /\ is_premium <=> FromRemote
        /\ ~is_premium <=> FromBundled
        /\ model = (IF is_premium THEN LLM_MODEL_PREMIUM ELSE LLM_MODEL)
        /\ self_model = (IF is_premium /\ LLM_MODEL_PREMIUM # ""
                         THEN LLM_MODEL_PREMIUM ELSE LLM_MODEL)
        /\ (LLM_MODEL_PREMIUM \notin {"", LLM_MODEL}) =>
              /\ (self_model = LLM_MODEL_PREMIUM) <=> FromRemote
              /\ (self_model = LLM_MODEL) <=> FromBundled

\* C22 witness: a bundled domain called with a credential went to the
\* standard model, under names that differ
C22_Witness ==
    /\ pc = "done" /\ IsOpen /\ api_key = "key"
    /\ LLM_MODEL_PREMIUM \notin {"", LLM_MODEL}
    /\ self_model = LLM_MODEL /\ calls.llm = 1

\* ------------------------------------- claims on the protected resolution
\* the schema field of the document read holds a JSON string that parses
SchemaWellFormed == doc.state = "present" /\ doc.schemaKind = "json"
SchemaErrors == {"SchemaMissing", "SchemaNotString", "SchemaInvalidJson"}

\* C23: for a domain outside the bundled set the checks are made in this
\* order and the first that fails decides: the store client is configured
\* (else the configuration error, even with an empty credential), the
\* credential is non-empty (else authentication required, nothing read from
\* the store), the domain document exists (else not found, the
\* access-control document unread), the credential has access (else access
\* denied, whatever the schema field), the schema field is well-formed; the
\* schema is returned only when all five pass.
C23_ChecksInOrder ==
    (~IsOpen /\ pc # "step1") =>
        /\ ~firebase_client => (error = "Configuration" /\ calls = NoCalls)
        /\ (firebase_client /\ ~Truthy(api_key)) =>
              (error = "AuthRequired" /\ calls = NoCalls)
        /\ (firebase_client /\ Truthy(api_key)) => calls.doc = 1
        /\ doc.state = "absent" => (error = "NotFound" /\ calls.key = 0)
        /\ (doc.state = "present" /\ ~KeyGrants) =>
              (error = "AccessDenied" /\ calls.key = 1)
        /\ (doc.state = "present" /\ KeyGrants /\ ~SchemaWellFormed) =>
              error \in SchemaErrors
        /\ blueprint # NoSchema <=>
              /\ firebase_client /\ Truthy(api_key) /\ doc.state = "present"
              /\ KeyGrants /\ SchemaWellFormed
        /\ blueprint # NoSchema => (~ResolutionFailed /\ is_premium)
        /\ blueprint = NoSchema => ResolutionFailed

\* C23 witness: the credential has no access and the schema field is bad
\* as well: the earlier check decided
C23_Witness ==
    /\ ~IsOpen /\ pc = "failed" /\ error = "AccessDenied"
    /\ doc.state = "present" /\ doc.schemaKind = "not_string"
    /\ key_doc.state = "present" /\ key_doc.active = "false"

\* ------------------------------------------ the repair pass, nested objects
\* a nested object that lacks the field its own schema requires
NestedObj == "obj:{}"
NestedVals == Vals \cup {NestedObj}
NestedRecords == {Dict(d) : d \in SubFuncs(Fields, NestedVals)}
\* the schema of an object-valued field: it has a 'required' of its own
NestedFieldSchemas ==
    {[type |-> "object", hasDefault |-> FALSE, default |-> JNull,
      required |-> <<"price">>],
     [type |-> "object", hasDefault |-> TRUE, default |-> NestedObj,
      required |-> <<"price">>]}
NestedSchemas ==
    [type : {"object"}, hasRequired : BOOLEAN,
     required : SeqsUpTo(Fields, MaxRequired),
     properties : SubFuncs(Fields, NestedFieldSchemas \cup
                     {fs \in FieldSchemas :
                         fs.type = "any" /\ fs.default \in {JNull, "num:1"}})]

\* validate_and_fix_required_fields called on a record and a schema, nested
\* objects and nested schemas included
InitNested ==
    /\ DefaultConfig
    /\ dir = <<>> /\ idx = 1 /\ OPEN_BLUEPRINTS = EmptyBlueprints
    /\ firebase_client = FALSE
    /\ url = NoneVal /\ domain = "e-commerce" /\ api_key = NoneVal
    /\ markdown_content = NoneVal
    /\ pc = "repair_fn"
    /\ blueprint \in {s \in NestedSchemas : s.hasRequired \/ s.required = <<>>}
    /\ is_premium = FALSE /\ doc = DocUnread /\ key_doc = KeyUnread
    /\ markdown = NoneVal /\ model = NoneVal /\ self_model = NoneVal
    /\ original \in NestedRecords \cup JsonValues
    /\ heap = [EmptyHeap EXCEPT ![1] = original]
    /\ extracted_data = 1
    /\ is_valid = <<>> /\ fix = <<>> /\ returned = 0 /\ error = "none"
    /\ calls = NoCalls
    /\ fetched = Unfetched
    /\ AuxIdle

SpecNested == InitNested /\ [][NextRepair]_vars

\* C24: for every record (a mapping) and schema, the result of
\* validate_and_fix_required_fields has as keys exactly the record's keys
\* plus the missing top-level required fields; each added field holds
\* properties[field].default when the schema declares one and null
\* otherwise; the fields present keep their values, a nested object that
\* lacks its own required fields included; with no 'required', or an empty
\* one, the argument itself is returned.
C24_RepairAddsExactlyMissing ==
    Len(fix) >= 1 =>
        /\ (~blueprint.hasRequired \/ blueprint.required = <<>>) =>
              (~fix[1].raised /\ fix[1].ref = 1 /\ heap[1] = original)
        /\ original.kind = "dict" =>
              /\ ~fix[1].raised
              /\ LET out == heap[fix[1].ref] IN
                 /\ out.kind = "dict"
                 /\ DOMAIN out.d =
                       DOMAIN original.d \cup Missing(original, blueprint)
                 /\ \A f \in DOMAIN original.d : out.d[f] = original.d[f]
                 /\ \A f \in Missing(original, blueprint) :
                       out.d[f] =
                          IF /\ f \in DOMAIN blueprint.properties
                             /\ blueprint.properties[f].hasDefault
                          THEN blueprint.properties[f].default
                          ELSE JNull

\* C24 witness: one required field was missing and got null, while the
\* nested object under the other field still lacks what its schema requires
C24_Witness ==
    /\ Len(fix) >= 1 /\ ~fix[1].raised
    /\ original = Dict([f \in {"product_name"} |-> NestedObj])
    /\ blueprint.required = <<"product_name", "price">>
    /\ DOMAIN blueprint.properties = {"product_name"}
    /\ blueprint.properties["product_name"].type = "object"
    /\ heap[fix[1].ref] =
          Dict([f \in Fields |->
                  IF f = "product_name" THEN NestedObj ELSE JNull])

\* ------------------------------------------ claims on the model call's end
\* C25: when the model's answer is not parseable JSON, or the backend call
\* fails, extract_structured_data fails and extract ends with that failure:
\* no record is returned, neither validation nor repair runs, and the model
\* is not called a second time.
C25_ModelFailureEndsExtract ==
    /\ \A ans \in LlmAnswers :
          ans.kind # "json" => extract_structured_data(ans).error = "LlmFailed"
    /\ (calls.llm > 0 /\ original = Free /\ pc # "llm_call") =>
          /\ pc = "failed" /\ error = "LlmFailed"
          /\ returned = 0 /\ extracted_data = 0
          /\ calls.validate = 0 /\ calls.repair = 0 /\ calls.llm = 1
          /\ is_valid = <<>> /\ fix = <<>>
          /\ Responded => (response.status = 500 /\ ~response.success)
    /\ error = "LlmFailed" => (original = Free /\ calls.llm = 1)

\* C25 witness: the model call failed after a scrape, and the failure was
\* answered
C25_Witness ==
    /\ pc = "failed" /\ error = "LlmFailed" /\ calls.scrape = 1
    /\ Responded /\ response.status = 500

\* C26: for a protected domain whose access check passes, the schema
\* returned is always what parsing the JSON string of the document's
\* 'schema' field gives: when the field is missing, is not a string or does
\* not parse, resolution fails; the stored document itself is never
\* returned as the schema.
C26_SchemaIsParsedField ==
    (~IsOpen /\ pc # "step1" /\ doc.state = "present" /\ KeyGrants) =>
        /\ doc.schemaKind = "json" =>
              (blueprint = doc.schema /\ is_premium /\ ~ResolutionFailed)
        /\ doc.schemaKind = "missing" =>
              (ResolutionFailed /\ error = "SchemaMissing")
        /\ doc.schemaKind = "not_string" =>
              (ResolutionFailed /\ error = "SchemaNotString")
        /\ doc.schemaKind = "bad_json" =>
              (ResolutionFailed /\ error = "SchemaInvalidJson")
        /\ doc.schemaKind # "json" => blueprint = NoSchema
        /\ blueprint # doc

\* C26 witness: access was granted and the schema field held an object, not
\* a string: resolution failed
C26_Witness ==
    /\ ~IsOpen /\ KeyGrants /\ doc.state = "present"
    /\ doc.schemaKind = "not_string"
    /\ pc = "failed" /\ error = "SchemaNotString" /\ calls.key = 1

\* the access-control document could not be read, or lacks a field the
\* check needs
KeyReadErrs(kd) ==
    \/ kd.state = "raises"
    \/ kd.state = "present" /\ kd.active = "absent"
    \/ kd.state = "present" /\ kd.allowedKind \in {"absent", "null"}

\* C27: the access check fails closed: when reading the access-control
\* document raises, or the document lacks 'active' or 'allowed_domains',
\* _validate_api_key answers false and resolution ends with access denied;
\* no error path grants access.
C27_AccessFailsClosed ==
    /\ \A kd \in KeyReads, dom \in Domains :
          KeyReadErrs(kd) => ~_validate_api_key(kd, dom)
    /\ (calls.key = 1 /\ KeyReadErrs(key_doc)) =>
          /\ pc = "failed" /\ error = "AccessDenied"
          /\ blueprint = NoSchema /\ ~is_premium
          /\ calls.scrape = 0 /\ calls.llm = 0
    /\ (~IsOpen /\ blueprint # NoSchema) =>
          (calls.key = 1 /\ ~KeyReadErrs(key_doc))

\* C27 witness: the read of the access-control document raised while the
\* domain document held a good schema: access denied
C27_Witness ==
    /\ ~IsOpen /\ key_doc.state = "raises"
    /\ doc.state = "present" /\ doc.schemaKind = "json"
    /\ pc = "failed" /\ error = "AccessDenied"

\* ------------------------------------------------------ claims on the end
\* every statement of the coroutine that can run is eventually run, each
\* backend call eventually returns or fails, and the endpoint that awaits
\* extract is resumed when it ended
SpecFair == Spec /\ WF_vars(Next)

\* the outcome of the invocation: a record returned or a failure raised,
\* never both, and nothing is answered before extract ended
OneOutcome ==
    /\ pc = "done" => (returned # 0 /\ error = "none")
    /\ pc = "failed" => (returned = 0 /\ error # "none")
    /\ (returned # 0 \/ error # "none") => Terminal
    /\ pc = "llm_call" => (calls.llm = 1 /\ ~Responded)
    /\ Responded => Terminal
    /\ (Responded /\ response.success) => pc = "done"

\* C28: every invocation of extract eventually reaches exactly one terminal
\* outcome, a record returned or a failure raised, provided each backend
\* call eventually returns or fails; once the model call is dispatched
\* nothing is observed by the caller before the call completed or failed;
\* no step of extract runs after the terminal outcome.
C28_ReachesOneOutcome ==
    /\ []OneOutcome
    /\ [][Terminal => UNCHANGED pipeVars]_vars
    /\ <>Terminal

\* C28 witness: the model call returned, the repair ran, the record was
\* returned and answered
C28_Witness ==
    /\ pc = "done" /\ returned # 0 /\ calls.llm = 1 /\ calls.repair = 1
    /\ Responded /\ response.status = 200

====
